---- MODULE Spec2Model ----
(***************************************************************************)
(* Model of app2.py: the fig greenhouse analysis run (geometry estimator,  *)
(* winter period preparation, weather table loading, the day/hour heating  *)
(* loop, the yield allocator and the report).                              *)
(*                                                                         *)
(* Floating point is modelled in fixed point:                              *)
(*   gh_width, gh_length          decimetres                               *)
(*   gh_side_h, gh_ridge_h, wing_d, arc lengths   millimetres              *)
(*   areas                        dm x mm = cm^2                           *)
(*   angles                       milliradians                             *)
(*   tmin, tmax                   tenths of a degree                       *)
(*   target_temp                  whole degrees (slider of integers)       *)
(*   u_val                        tenths                                   *)
(*   calendar dates               days since 2025-10-01                    *)
(***************************************************************************)
EXTENDS Integers, Sequences, FiniteSets, TLC

\* ------------------------------------------------------------------
\* Bounds of the model
\* ------------------------------------------------------------------
\* longest analysis period drawn by the form, in days
MaxDays == 3
\* longest uploaded observation table, in rows
MaxRows == 2

\* ------------------------------------------------------------------
\* Arithmetic helpers
\* ------------------------------------------------------------------
Abs(x) == IF x < 0 THEN -x ELSE x

Max(a, b) == IF a >= b THEN a ELSE b

\* pi in milliradians
PiMilli == 3142

\* pi/2 in milliradians
HalfPiMilli == 1571

RECURSIVE IsqrtIter(_, _, _)
IsqrtIter(n, lo, hi) ==
    IF lo >= hi THEN lo
    ELSE LET mid == (lo + hi + 1) \div 2
         IN IF mid * mid <= n THEN IsqrtIter(n, mid, hi)
            ELSE IsqrtIter(n, lo, mid - 1)

\* math.sqrt on non-negative fixed-point values (floor of the root)
Isqrt(n) == IsqrtIter(n, 0, 46340)

\* atan(a/b) for 0 <= a <= b, b > 0, in milliradians
\* (t*(pi/4 + 0.273*(1-t)) with t = a/b in thousandths)
AtanUnit(a, b) ==
    LET t == (a * 1000) \div b
    IN (t * (785000 + 273 * (1000 - t))) \div 1000000

\* math.atan2(y, x) for y > 0, in milliradians
Atan2Milli(y, x) ==
    LET ax == Abs(x)
        q  == IF ax = 0 THEN HalfPiMilli
              ELSE IF y <= ax THEN AtanUnit(y, ax)
              ELSE HalfPiMilli - AtanUnit(ax, y)
    IN IF x >= 0 THEN q ELSE PiMilli - q

\* np.sin(np.pi * k / d) for 0 <= k <= d, d >= 1, in thousandths
\* (Bhaskara's rational approximation 16k(d-k) / (5d^2 - 4k(d-k)))
SinMilli(k, d) == (16000 * k * (d - k)) \div (5 * d * d - 4 * k * (d - k))

\* cos(15 degrees * k) for k = 0..12, in thousandths
CosStep == <<1000, 966, 866, 707, 500, 259, 0, -259, -500, -707, -866, -966, -1000>>

\* np.cos((hour - 14) * 2 * np.pi / 24), in thousandths
CosMilli(hour) ==
    LET k  == Abs(hour - 14)
        kk == IF k > 12 THEN 24 - k ELSE k
    IN CosStep[kk + 1]

\* ------------------------------------------------------------------
\* 2) side_arc_length
\* ------------------------------------------------------------------
\* the raw arc R * (pi - alpha) of a splayed sidewall (d > 0)
RawArc(Hs, d) ==
    LET R     == (d * d + Hs * Hs) \div (2 * d)
        alpha == Atan2Milli(Hs, d - R)
        delta == PiMilli - alpha
    IN (R * delta) \div 1000

\* the arc length without the fallback on a degenerate arc
side_arc_length_unguarded(Hs, d) ==
    IF d <= 0 THEN Hs ELSE RawArc(Hs, d)

\* fixed-point values are always finite; the guard left is s <= 0
side_arc_length(Hs, d) ==
    IF d <= 0 THEN Hs
    ELSE LET s == RawArc(Hs, d)
         IN IF s <= 0 THEN Hs ELSE s

\* ------------------------------------------------------------------
\* 3) calc_surface_area
\* ------------------------------------------------------------------
\* roof height without the max(0.0, ...) clamp
RoofHeightUnclamped(ridge_h, side_h) == ridge_h - side_h

RoofHeight(ridge_h, side_h) == Max(0, ridge_h - side_h)

calc_surface_area(type, spans, width, length, side_h, ridge_h, d, k_roof) ==
    LET sc          == Max(1, spans)
        roof_height == RoofHeight(ridge_h, side_h)
        W_total     == width * sc
        s_side      == side_arc_length(side_h, d)
        area_side   == 2 * length * s_side
        area_end    == 2 * (W_total * side_h + (W_total * roof_height) \div 2)
        slope       == Isqrt((width * 50) * (width * 50) + roof_height * roof_height)
        area_roof   == IF type = "single" THEN 2 * slope * length
                       ELSE (k_roof * length * W_total) \div 10
    IN [surface_area |-> area_side + area_end + area_roof,
        area_roof    |-> area_roof,
        area_side    |-> area_side,
        area_end     |-> area_end,
        W_total      |-> W_total,
        s_side       |-> s_side,
        roof_height  |-> roof_height]

\* ------------------------------------------------------------------
\* 1) REGION_DATA (base, amp in tenths of a degree)
\* ------------------------------------------------------------------
REGION_DATA ==
    [r \in {"Yeongam", "Gokseong"} |->
        IF r = "Yeongam" THEN [base |-> 20, amp |-> 80]
        ELSE [base |-> -10, amp |-> 100]]

\* ------------------------------------------------------------------
\* Calendar: days since 2025-10-01
\* ------------------------------------------------------------------
\* dt.month of a Timestamp between 2025-10-01 and 2026-03-31
Month(d) ==
    IF d <= 30 THEN 10
    ELSE IF d <= 60 THEN 11
    ELSE IF d <= 91 THEN 12
    ELSE IF d <= 122 THEN 1
    ELSE IF d <= 150 THEN 2
    ELSE 3

\* a date range that leaves the end date out
date_range_exclusive(s, e) == [k \in 1..Max(0, e - s) |-> s + k - 1]

\* pd.date_range(start, end): every day from start to end inclusive,
\* empty when end is before start
date_range(s, e) == [k \in 1..Max(0, e - s + 1) |-> s + k - 1]

\* ------------------------------------------------------------------
\* 4) load_weather_csv
\* ------------------------------------------------------------------
\* value of a cell pd.to_numeric(errors="coerce") could not parse
NaN == 99999

RequiredColumns == {"date", "tmin", "tmax"}

NoFile == [present |-> FALSE, columns |-> {}, rows |-> <<>>]

NoFrame == [loaded |-> FALSE, rows |-> <<>>]

\* insert row r into the date-sorted sequence s after the rows of equal date
RECURSIVE InsertByDate(_, _)
InsertByDate(s, r) ==
    IF s = <<>> THEN <<r>>
    ELSE IF Head(s).date <= r.date THEN <<Head(s)>> \o InsertByDate(Tail(s), r)
    ELSE <<r>> \o s

\* df.set_index("date").sort_index()
RECURSIVE sort_index(_)
sort_index(s) ==
    IF s = <<>> THEN <<>>
    ELSE InsertByDate(sort_index(SubSeq(s, 1, Len(s) - 1)), s[Len(s)])

\* df.dropna(subset=["tmin", "tmax"])
RECURSIVE dropna(_)
dropna(s) ==
    IF s = <<>> THEN <<>>
    ELSE IF Head(s).tmin = NaN \/ Head(s).tmax = NaN THEN dropna(Tail(s))
    ELSE <<Head(s)>> \o dropna(Tail(s))

\* the column check with the inclusion the wrong way round
MissingColumnsReversed(file) == ~(file.columns \subseteq RequiredColumns)

\* TRUE when load_weather_csv raises ValueError
MissingColumns(file) == ~(RequiredColumns \subseteq file.columns)

load_weather_csv(file) == [loaded |-> TRUE, rows |-> dropna(sort_index(file.rows))]

\* positions of the loaded rows whose index equals dt
RowsAt(df, dt) == {j \in 1..Len(df.rows) : df.rows[j].date = dt}

\* dt in weather_df.index
InIndex(df, dt) == RowsAt(df, dt) # {}

\* ------------------------------------------------------------------
\* State
\* ------------------------------------------------------------------
VARIABLES
    pc,                  \* position of the script
    error,               \* st.error shown / uncaught exception ("" when none)
    gh_type, span_count, gh_width, gh_length, gh_side_h, gh_ridge_h,
    wing_d, k_roof_multi,
    region_name, weather_file, energy_source, unit_fuel_cost, target_temp,
    u_val, winter_total_yield, market_price, start_date, end_date,
    geom,                \* <<>> until calc_surface_area has returned
    depreciation, dates, n_days, weather_df, weather_source,
    daily_base_yield, winter_revenue, winter_fuel_cost, total_heating_hours,
    daily_rows,
    i,                   \* index of the day being simulated (0-based)
    today_min, today_max, daily_heat_load, hours_active,
    hour,                \* next hour of the inner loop
    avg_hours,           \* thousandths of an hour
    summary              \* <<>> until the summary record is built

formVars == <<gh_type, span_count, gh_width, gh_length, gh_side_h, gh_ridge_h,
              wing_d, k_roof_multi, region_name, weather_file, energy_source,
              unit_fuel_cost, target_temp, u_val, winter_total_yield,
              market_price, start_date, end_date>>

prepVars == <<geom, depreciation, dates, n_days, weather_df, weather_source,
              daily_base_yield>>

totalVars == <<winter_revenue, winter_fuel_cost, total_heating_hours, daily_rows>>

dayVars == <<i, today_min, today_max, daily_heat_load, hours_active, hour>>

reportVars == <<avg_hours, summary>>

vars == <<pc, error, formVars, prepVars, totalVars, dayVars, reportVars>>

\* ------------------------------------------------------------------
\* 5) Values the sidebar form can submit
\* ------------------------------------------------------------------
GhTypes == {"single", "multi"}

\* (gh_side_h, gh_ridge_h): both number inputs only require >= 0.5 m
HeightPairs == {<<2000, 3500>>, <<2000, 2000>>, <<3000, 2000>>}

\* (region_name, energy_source)
Scenarios == {<<"Yeongam", "diesel">>, <<"Gokseong", "electric">>}

TargetTemps == {15, 20}

\* 2025-11-29, 2025-12-31, 2026-02-27, 2026-03-01
StartDates == {59, 91, 149, 151}

\* (tmin, tmax) cells of an uploaded row
ObsPairs == {<<100, 200>>, <<150, 150>>}

ObsRows(s) ==
    {[date |-> s + k, tmin |-> p[1], tmax |-> p[2]] : k \in {0}, p \in ObsPairs}
    \cup {[date |-> s + 1, tmin |-> -30, tmax |-> 40],
          [date |-> s, tmin |-> NaN, tmax |-> 50]}

RowSeqs(s, n) == UNION {[1..m -> ObsRows(s)] : m \in 0..n}

WeatherFiles(s) ==
    {NoFile}
    \cup {[present |-> TRUE, columns |-> RequiredColumns, rows |-> r] : r \in RowSeqs(s, MaxRows)}
    \cup {[present |-> TRUE, columns |-> {"date", "tmin"}, rows |-> r] : r \in RowSeqs(s, 1)}

\* investment costs of the form defaults, in 10,000 won
cost_film == 200

cost_curtain == 1500

cost_heater == 500

cost_facility == 300

summer_total_yield == 3000

summer_price == 6000

summer_cost_ratio == 30

\* ------------------------------------------------------------------
\* Init: the script waits for the form (submit_btn is False)
\* ------------------------------------------------------------------
Blank ==
    /\ error = ""
    /\ geom = <<>>
    /\ depreciation = 0
    /\ dates = <<>>
    /\ n_days = 0
    /\ weather_df = NoFrame
    /\ weather_source = "assumed"
    /\ daily_base_yield = 0
    /\ winter_revenue = 0
    /\ winter_fuel_cost = 0
    /\ total_heating_hours = 0
    /\ daily_rows = <<>>
    /\ i = 0
    /\ today_min = 0
    /\ today_max = 0
    /\ daily_heat_load = 0
    /\ hours_active = 0
    /\ hour = 0
    /\ avg_hours = 0
    /\ summary = <<>>

Init ==
    /\ pc = "form"
    /\ Blank
    /\ gh_type = "single"
    /\ span_count = 1
    /\ gh_width = 60
    /\ gh_length = 500
    /\ gh_side_h = 2000
    /\ gh_ridge_h = 3500
    /\ wing_d = 1000
    /\ k_roof_multi = 1120
    /\ region_name = "Yeongam"
    /\ weather_file = NoFile
    /\ energy_source = "diesel"
    /\ unit_fuel_cost = 1100
    /\ target_temp = 15
    /\ u_val = 55
    /\ winter_total_yield = 100
    /\ market_price = 180
    /\ start_date = 31
    /\ end_date = 150

\* ------------------------------------------------------------------
\* 5) The form is filled in and "run analysis" is pressed
\* ------------------------------------------------------------------
Submit ==
    /\ pc = "form"
    /\ \E t \in GhTypes, h \in HeightPairs, sc \in Scenarios, tt \in TargetTemps,
          s \in StartDates :
         \E e \in (s - 1)..(s + MaxDays - 1), f \in WeatherFiles(s) :
            /\ gh_type' = t
            /\ span_count' = IF t = "single" THEN 1 ELSE 3
            /\ gh_side_h' = h[1]
            /\ gh_ridge_h' = h[2]
            /\ region_name' = sc[1]
            /\ energy_source' = sc[2]
            /\ unit_fuel_cost' = IF sc[2] = "diesel" THEN 1100 ELSE 50
            /\ u_val' = IF sc[2] = "diesel" THEN 55 ELSE 20
            /\ target_temp' = tt
            /\ start_date' = s
            /\ end_date' = e
            /\ weather_file' = f
    /\ pc' = "geometry"
    /\ UNCHANGED <<error, gh_width, gh_length, wing_d, k_roof_multi,
                   winter_total_yield, market_price,
                   prepVars, totalVars, dayVars, reportVars>>

\* ------------------------------------------------------------------
\* 6-(2) envelope area
\* ------------------------------------------------------------------
CalcGeometry ==
    /\ pc = "geometry"
    /\ geom' = <<calc_surface_area(gh_type, span_count, gh_width, gh_length,
                                   gh_side_h, gh_ridge_h, wing_d, k_roof_multi)>>
    /\ pc' = "period"
    /\ UNCHANGED <<error, formVars, depreciation, dates, n_days, weather_df,
                   weather_source, daily_base_yield, totalVars, dayVars, reportVars>>

\* ------------------------------------------------------------------
\* 6-(3), 6-(4) depreciation and the winter period; st.stop() on an
\* empty period
\* ------------------------------------------------------------------
Depreciation ==
    ((cost_film * 10 + cost_curtain * 6 + (cost_heater + cost_facility) * 3) * 10000) \div 30

PreparePeriod ==
    /\ pc = "period"
    /\ depreciation' = Depreciation
    /\ dates' = date_range(start_date, end_date)
    /\ n_days' = Len(dates')
    /\ IF n_days' <= 0
       THEN /\ error' = "invalid period"
            /\ pc' = "stopped"
       ELSE /\ error' = error
            /\ pc' = "weather"
    /\ UNCHANGED <<formVars, geom, weather_df, weather_source, daily_base_yield,
                   totalVars, dayVars, reportVars>>

\* ------------------------------------------------------------------
\* 6-(4) weather table, 6-(6) daily base yield, 6-(7) loop totals
\* ------------------------------------------------------------------
\* winter_total_yield / max(1, n_days), in thousandths of a kg
DailyBaseYield(total, n) == (total * 1000) \div Max(1, n)

LoadWeather ==
    /\ pc = "weather"
    /\ IF weather_file.present /\ MissingColumns(weather_file)
       THEN /\ error' = "csv load error"
            /\ pc' = "stopped"
            /\ UNCHANGED <<weather_df, weather_source, daily_base_yield>>
       ELSE /\ weather_df' = IF weather_file.present
                             THEN load_weather_csv(weather_file) ELSE NoFrame
            /\ weather_source' = IF weather_file.present THEN "uploaded" ELSE "assumed"
            /\ daily_base_yield' = DailyBaseYield(winter_total_yield, n_days)
            /\ error' = error
            /\ pc' = "day"
    /\ UNCHANGED <<formVars, geom, depreciation, dates, n_days,
                   totalVars, dayVars, reportVars>>

\* ------------------------------------------------------------------
\* 6-(7) day loop: today's tmin / tmax
\* ------------------------------------------------------------------
\* base_t - amp_t * sin(pi * day_index / max(1, n_days - 1)), in tenths
SeasonalTrend(region, day_index, n) ==
    REGION_DATA[region].base
        - (REGION_DATA[region].amp * SinMilli(day_index, Max(1, n - 1))) \div 1000

\* fixed diurnal swing of the assumed-temperature mode, in tenths
DiurnalSwing == 100

\* weather_df.loc[dt, column] when exactly one loaded row has index dt
ObservedRow(df, dt) == df.rows[CHOOSE j \in RowsAt(df, dt) : TRUE]

\* weather_df is not None and dt in weather_df.index
UseObservation(df, dt) == df.loaded /\ InIndex(df, dt)

\* float(weather_df.loc[dt, "tmin"]) raises TypeError when .loc returns a
\* Series of two or more rows
LookupRaises(df, dt) == Cardinality(RowsAt(df, dt)) > 1

TodayMin(df, dt, region, day_index, n) ==
    IF UseObservation(df, dt) THEN ObservedRow(df, dt).tmin
    ELSE SeasonalTrend(region, day_index, n)

\* today's maximum with the 10-degree swing imposed on observed days too
TodayMaxSwing(df, dt, region, day_index, n) ==
    TodayMin(df, dt, region, day_index, n) + DiurnalSwing

TodayMax(df, dt, region, day_index, n) ==
    IF UseObservation(df, dt) THEN ObservedRow(df, dt).tmax
    ELSE SeasonalTrend(region, day_index, n) + DiurnalSwing

DayBegin ==
    /\ pc = "day"
    /\ i < n_days
    /\ LET dt == dates[i + 1]
       IN IF UseObservation(weather_df, dt) /\ LookupRaises(weather_df, dt)
          THEN /\ error' = "TypeError"
               /\ pc' = "crashed"
               /\ UNCHANGED <<today_min, today_max, daily_heat_load, hours_active, hour>>
          ELSE /\ today_min' = TodayMin(weather_df, dt, region_name, i, n_days)
               /\ today_max' = TodayMax(weather_df, dt, region_name, i, n_days)
               /\ daily_heat_load' = 0
               /\ hours_active' = 0
               /\ hour' = 0
               /\ error' = error
               /\ pc' = "hour"
    /\ UNCHANGED <<formVars, prepVars, totalVars, i, reportVars>>

\* ------------------------------------------------------------------
\* 6-(7) hour loop
\* ------------------------------------------------------------------
HoursPerDay == 24

\* current_temp in 1/20000 of a degree
CurrentTemp(tmin, tmax, h) == (tmin + tmax) * 1000 + (tmax - tmin) * CosMilli(h)

\* the comparison with <= in place of <
NeedsHeatInclusive(tmin, tmax, h, target) == CurrentTemp(tmin, tmax, h) <= target * 20000

\* current_temp < target_temp
NeedsHeat(tmin, tmax, h, target) == CurrentTemp(tmin, tmax, h) < target * 20000

\* delta_t in tenths of a degree
DeltaT(tmin, tmax, h, target) == (target * 20000 - CurrentTemp(tmin, tmax, h)) \div 2000

\* surface_area * u_val * delta_t (area in m^2, result in whole units)
HourLoad(area, u, delta_t) == (((area \div 10000) * u * delta_t) \div 100)

HourStep ==
    /\ pc = "hour"
    /\ hour < HoursPerDay
    /\ IF NeedsHeat(today_min, today_max, hour, target_temp)
       THEN /\ daily_heat_load' = daily_heat_load
                 + HourLoad(geom[1].surface_area, u_val,
                            DeltaT(today_min, today_max, hour, target_temp))
            /\ hours_active' = hours_active + 1
       ELSE UNCHANGED <<daily_heat_load, hours_active>>
    /\ hour' = hour + 1
    /\ UNCHANGED <<pc, error, formVars, prepVars, totalVars, i, today_min,
                   today_max, reportVars>>

\* ------------------------------------------------------------------
\* 6-(7) end of the day: fuel, cost, totals, yield, the daily row
\* ------------------------------------------------------------------
\* calorific * eff / 10 with eff in hundredths
CalorificEff(energy) ==
    IF energy = "diesel" THEN (8500 * 85) \div 10 ELSE (860 * 98) \div 10

\* daily_heat_load / (calorific * eff), in tenths of a fuel unit
NeededFuel(load, energy) == (load * 100) \div CalorificEff(energy)

\* needed_fuel * unit_fuel_cost, in won
DayCost(load, energy, unit) == (NeededFuel(load, energy) * unit) \div 10

\* the shoulder-season boost applied to March instead of February
SeasonFactorShifted(m) ==
    IF m = 1 THEN 8
    ELSE IF m \in {11, 3} THEN 11
    ELSE 10

\* season_factor, in tenths
SeasonFactor(m) ==
    IF m = 1 THEN 8
    ELSE IF m \in {11, 2} THEN 11
    ELSE 10

\* daily_base_yield * season_factor, in 1/10000 kg
DailyYield(base_yield, m) == base_yield * SeasonFactor(m)

\* the accumulation written as an assignment
AddHoursOverwrite(total, h) == h

\* total_heating_hours += hours_active
AddHours(total, h) == total + h

DayEnd ==
    /\ pc = "hour"
    /\ hour = HoursPerDay
    /\ LET dt          == dates[i + 1]
           day_cost    == DayCost(daily_heat_load, energy_source, unit_fuel_cost)
           daily_yield == DailyYield(daily_base_yield, Month(dt))
       IN /\ winter_fuel_cost' = winter_fuel_cost + day_cost
          /\ total_heating_hours' = AddHours(total_heating_hours, hours_active)
          /\ winter_revenue' = winter_revenue + daily_yield * market_price
          /\ daily_rows' = Append(daily_rows,
                [date                |-> dt,
                 tmin                |-> today_min,
                 tmax                |-> today_max,
                 heating_hours       |-> hours_active,
                 daily_heat_load     |-> daily_heat_load,
                 daily_fuel_cost_won |-> day_cost,
                 daily_yield_kg      |-> daily_yield,
                 daily_revenue_won   |-> daily_yield * market_price])
    /\ i' = i + 1
    /\ pc' = IF i + 1 < n_days THEN "day" ELSE "report"
    /\ UNCHANGED <<error, formVars, prepVars, today_min, today_max,
                   daily_heat_load, hours_active, hour, reportVars>>

\* ------------------------------------------------------------------
\* 6-(7) int(), 6-(8), 6-(9), 7) report, 8) summary
\* ------------------------------------------------------------------
\* total_heating_hours / max(1, n_days), in thousandths of an hour
AvgHours(total, n) == (total * 1000) \div Max(1, n)

Report ==
    /\ pc = "report"
    /\ winter_revenue' = winter_revenue \div 10000
    /\ avg_hours' = AvgHours(total_heating_hours, n_days)
    /\ LET summer_revenue    == summer_total_yield * summer_price
           summer_cost       == (summer_revenue * summer_cost_ratio) \div 100
           winter_net_profit == winter_revenue' - winter_fuel_cost - depreciation
       IN summary' = <<[weather_source        |-> weather_source,
                        winter_start          |-> start_date,
                        winter_end            |-> end_date,
                        winter_days           |-> n_days,
                        surface_area_m2       |-> geom[1].surface_area,
                        winter_revenue_won    |-> winter_revenue',
                        winter_fuel_cost_won  |-> winter_fuel_cost,
                        depreciation_won      |-> depreciation,
                        winter_net_profit_won |-> winter_net_profit,
                        summer_revenue_won    |-> summer_revenue,
                        summer_cost_won       |-> summer_cost,
                        annual_revenue_won    |-> summer_revenue + winter_revenue',
                        annual_profit_won     |-> (summer_revenue - summer_cost)
                                                     + winter_net_profit]>>
    /\ pc' = "done"
    /\ UNCHANGED <<error, formVars, prepVars, winter_fuel_cost,
                   total_heating_hours, daily_rows, dayVars>>

Next ==
    \/ Submit
    \/ CalcGeometry
    \/ PreparePeriod
    \/ LoadWeather
    \/ DayBegin
    \/ HourStep
    \/ DayEnd
    \/ Report

Spec == Init /\ [][Next]_vars

\* ------------------------------------------------------------------
\* The geometry estimator on its own: calc_surface_area applied to
\* dimensions drawn from the whole domain of the function
\* ------------------------------------------------------------------
InitGeom ==
    /\ pc = "geometry"
    /\ Blank
    /\ gh_type \in GhTypes
    /\ span_count \in {1, 3}
    /\ gh_width \in {10, 60}
    /\ gh_length \in {10, 500}
    /\ gh_side_h \in {500, 2000, 3000}
    /\ gh_ridge_h \in {500, 2000, 3500}
    /\ wing_d \in {-100, 0, 1, 1000, 3000}
    /\ k_roof_multi \in {1080, 1120, 1180}
    /\ region_name = "Yeongam"
    /\ weather_file = NoFile
    /\ energy_source = "diesel"
    /\ unit_fuel_cost = 1100
    /\ target_temp = 15
    /\ u_val = 55
    /\ winter_total_yield = 100
    /\ market_price = 180
    /\ start_date = 31
    /\ end_date = 150

NextGeom == CalcGeometry

SpecGeom == InitGeom /\ [][NextGeom]_vars

\* ==================================================================
\* Properties
\* ==================================================================
\* the script has entered the day loop (a day's temperatures were chosen)
SimulationRan == pc \in {"hour", "report", "done"}

Submitted == pc # "form"

\* C1: an invalid winter date range (end_date <= start_date, equality
\* included) aborts the run before any simulation: no day of the loop
\* runs, no daily row is appended, no summary is produced.
C1_InvalidRangeAborts ==
    (Submitted /\ end_date <= start_date)
        => (~SimulationRan /\ daily_rows = <<>> /\ summary = <<>>)

C3_MissingColumnsRejected ==
    (Submitted /\ weather_file.present
        /\ ~({"date", "tmin", "tmax"} \subseteq weather_file.columns)) =>
        /\ ~SimulationRan
        /\ pc \notin {"day", "crashed"}
        /\ ~weather_df.loaded
        /\ daily_rows = <<>>
        /\ summary = <<>>
        /\ pc = "stopped" => error \in {"csv load error", "invalid period"}

C3_Witness ==
    /\ pc = "stopped"
    /\ error = "csv load error"
    /\ weather_file.present
    /\ Len(weather_file.rows) = 1
    /\ n_days >= 1
    /\ daily_rows = <<>>

\* rows of the uploaded table for date d whose tmin and tmax both parsed
Retained(d) ==
    {j \in 1..Len(weather_file.rows) :
        /\ weather_file.rows[j].date = d
        /\ weather_file.rows[j].tmin # NaN
        /\ weather_file.rows[j].tmax # NaN}

InPeriod(d) == start_date <= d /\ d <= end_date

LastOf(S) == CHOOSE j \in S : \A k \in S : k <= j

\* C4: with two or more table rows for one date of the period, the run
\* completes (it never fails on that day) and the day's tmin and tmax are
\* those of the last of the duplicate rows.
C4_DuplicateLastWins ==
    \A d \in {start_date, start_date + 1} :
        (weather_file.present /\ InPeriod(d) /\ Cardinality(Retained(d)) >= 2) =>
            /\ pc # "crashed"
            /\ \A k \in 1..Len(daily_rows) :
                  daily_rows[k].date = d =>
                      /\ daily_rows[k].tmin = weather_file.rows[LastOf(Retained(d))].tmin
                      /\ daily_rows[k].tmax = weather_file.rows[LastOf(Retained(d))].tmax

\* daily row k took its temperatures from the uploaded table
RowObserved(k) == weather_file.present /\ Retained(daily_rows[k].date) # {}

C6_OneRowPerDate ==
    /\ [](pc = "done" =>
            /\ Len(daily_rows) = end_date - start_date + 1
            /\ Len(daily_rows) = n_days
            /\ \A k \in 1..Len(daily_rows) : daily_rows[k].date = start_date + k - 1)
    /\ [][/\ Len(daily_rows') >= Len(daily_rows)
          /\ \A k \in 1..Len(daily_rows) : daily_rows'[k] = daily_rows[k]]_vars

C6_Witness ==
    /\ pc = "done"
    /\ Len(daily_rows) = 3
    /\ daily_rows[3].date = end_date

\* hours 0..h-1 of the day being simulated whose curve temperature is
\* strictly below the target
ColdHours(h) ==
    {x \in 0..(h - 1) :
        (today_min + today_max) * 1000 + (today_max - today_min) * CosMilli(x)
            < target_temp * 20000}

\* C7: a day's active-hour count is always in [0,24]; it is 0 when the
\* day starts, grows by at most one per simulated hour, exactly for the
\* hours strictly below the target; an hour at or above the target adds
\* no load and is not counted.
C7_ActiveHours ==
    /\ [](/\ hours_active \in 0..24
          /\ \A k \in 1..Len(daily_rows) : daily_rows[k].heating_hours \in 0..24
          /\ pc = "hour" => hours_active = Cardinality(ColdHours(hour))
          /\ (pc = "hour" /\ hour = 0) => (hours_active = 0 /\ daily_heat_load = 0))
    /\ [][/\ hours_active' \in {0, hours_active, hours_active + 1}
          /\ (pc = "hour" /\ hour < 24 /\ hour \notin ColdHours(hour + 1))
                => (hours_active' = hours_active /\ daily_heat_load' = daily_heat_load)
          /\ (pc = "hour" /\ hour < 24 /\ hour \in ColdHours(hour + 1))
                => hours_active' = hours_active + 1]_vars

\* the end of a day with an hour exactly at the target and hours on both
\* sides of it
C7_Witness ==
    /\ pc = "hour"
    /\ hour = 24
    /\ hours_active \in 1..23
    /\ \E x \in 0..23 :
          (today_min + today_max) * 1000 + (today_max - today_min) * CosMilli(x)
              = target_temp * 20000

RECURSIVE SumHours(_)
SumHours(rows) ==
    IF rows = <<>> THEN 0 ELSE Head(rows).heating_hours + SumHours(Tail(rows))

\* C8: average heating hours is the total of the days' active hours
\* divided by the number of days; for a one-day period it is that day's
\* active-hour count exactly.
C8_AverageHours ==
    pc = "done" =>
        /\ total_heating_hours = SumHours(daily_rows)
        /\ avg_hours = (SumHours(daily_rows) * 1000) \div n_days
        /\ n_days = 1 => avg_hours = 1000 * daily_rows[1].heating_hours

C8_Witness ==
    /\ pc = "done"
    /\ n_days = 1
    /\ daily_rows[1].heating_hours \in 1..23
    /\ avg_hours = 1000 * daily_rows[1].heating_hours

\* every day of the period lies outside January, February and November
PlainMonths == \A k \in 1..Len(dates) : Month(dates[k]) \notin {1, 2, 11}

====
